---- MODULE Spec2Model ----
(***************************************************************************)
(* Model of src/app.py, the dysentery dashboard: load_data (CSV load and   *)
(* clean), the sidebar filter, the KPI / by-date / by-region / by-month    *)
(* aggregations and the six-month linear forecast.                         *)
(*                                                                         *)
(* Representation.  A string is a sequence of one-character strings; a     *)
(* missing value (NaN / NaT / None) is the empty sequence <<>>, which no   *)
(* derived string can equal because every regex group of the source        *)
(* captures at least one character and read_csv turns an empty field into  *)
(* NaN.  A case count is <<n>>.  A date is <<year, month, day>>.  A        *)
(* rational is <<numerator, denominator>>.  A DataFrame is a record        *)
(* [columns, rows]; a row is [idx |-> index label, v |-> column -> value]. *)
(***************************************************************************)
EXTENDS Integers, Sequences, FiniteSets, TLC

\* ------------------------------------------------------------------ bounds

\* Longest CSV (number of raw records) the dashboard specification explores.
MaxRows == 3

\* Longest CSV the loader specification explores.
MaxLoadRows == 2

\* ----------------------------------------------------------------- strings

NaN == <<>>

Digits == {"0", "1", "2", "3", "4", "5", "6", "7", "8", "9"}

IsDigit(c) == c \in Digits

DigitVal(c) ==
  CASE c = "0" -> 0 [] c = "1" -> 1 [] c = "2" -> 2 [] c = "3" -> 3
    [] c = "4" -> 4 [] c = "5" -> 5 [] c = "6" -> 6 [] c = "7" -> 7
    [] c = "8" -> 8 [] c = "9" -> 9

\* int("...") of a string of digits.
RECURSIVE ParseInt(_)
ParseInt(s) ==
  IF s = <<>> THEN 0
  ELSE 10 * ParseInt(SubSeq(s, 1, Len(s) - 1)) + DigitVal(s[Len(s)])

\* s[p .. p+n-1] are all digits (and lie inside s).
DigitsAt(s, p, n) ==
  /\ p >= 1
  /\ p + n - 1 <= Len(s)
  /\ \A k \in p..(p + n - 1) : IsDigit(s[k])

\* The least element of a non-empty set of integers.
MinOf(S) == CHOOSE x \in S : \A y \in S : x <= y

\* The literal "/resource/" of the Governorate pattern.
ResourceLit == <<"/", "r", "e", "s", "o", "u", "r", "c", "e", "/">>

\* Series.str.extract(r'/resource/([^/]+)$')[0]: re.search, so the leftmost
\* position where the whole pattern matches; the group is greedy and '$'
\* anchors it at the end of the string.
ExtractGovernorate(s) ==
  LET n == Len(ResourceLit)
      hits == {p \in 1..Len(s) :
                 /\ p + n <= Len(s)
                 /\ SubSeq(s, p, p + n - 1) = ResourceLit
                 /\ \A k \in (p + n)..Len(s) : s[k] # "/"}
  IN IF hits = {} THEN NaN ELSE SubSeq(s, MinOf(hits) + n, Len(s))

\* Series.str.replace('_', ' '); NaN stays NaN.
StrReplaceUnderscore(s) == [k \in 1..Len(s) |-> IF s[k] = "_" THEN " " ELSE s[k]]

\* Series.str.extract(r'(\d{4})'): the leftmost run of four digits.
ExtractYear(s) ==
  LET hits == {p \in 1..Len(s) : DigitsAt(s, p, 4)}
  IN IF hits = {} THEN NaN ELSE SubSeq(s, MinOf(hits), MinOf(hits) + 3)

\* Series.str.extract(r'(\d{2})-\d{4}')[0]: the two digits of the leftmost
\* "dd-dddd".
ExtractMonth(s) ==
  LET hits == {p \in 1..Len(s) :
                 /\ DigitsAt(s, p, 2)
                 /\ p + 2 <= Len(s)
                 /\ s[p + 2] = "-"
                 /\ DigitsAt(s, p + 3, 4)}
  IN IF hits = {} THEN NaN ELSE SubSeq(s, MinOf(hits), MinOf(hits) + 1)

\* df["Year"] + "-" + df["Month"]: NaN if either operand is NaN.
YearDashMonth(y, m) == IF y = NaN \/ m = NaN THEN NaN ELSE y \o <<"-">> \o m

\* pd.to_datetime(text, errors='coerce') of a "YYYY-MM" string: the first day
\* of that month; NaT when the text is NaN, the month is not 1..12, or the
\* month lies outside the nanosecond Timestamp range (1677-09-21 .. 2262-04-11).
ToDatetime(t) ==
  IF t = NaN THEN NaN
  ELSE LET y == ParseInt(SubSeq(t, 1, 4))
           m == ParseInt(SubSeq(t, 6, 7))
       IN IF /\ m >= 1
             /\ m <= 12
             /\ (y > 1677 \/ (y = 1677 /\ m >= 10))
             /\ (y < 2262 \/ (y = 2262 /\ m <= 4))
          THEN <<y, m, 1>>
          ELSE NaN

\* -------------------------------------------------------------- data frames

CleanColumns == <<"Date", "Year", "Month", "Governorate", "Number of cases">>

RawColumns == <<"refArea", "refPeriod", "Number of cases">>

Range(s) == {s[k] : k \in 1..Len(s)}

NoFrame == [columns |-> <<>>, rows |-> <<>>]

\* pd.read_csv: one row per record, RangeIndex 0..n-1.
ReadCsv(records) ==
  [columns |-> RawColumns,
   rows |-> [k \in 1..Len(records) |->
               [idx |-> k - 1,
                v |-> [c \in Range(RawColumns) |->
                         IF c = "refArea" THEN records[k].refArea
                         ELSE IF c = "refPeriod" THEN records[k].refPeriod
                         ELSE records[k].cases]]]]

\* frame[mask]: the rows whose position is in the boolean mask, in order,
\* index labels kept.
SelectRows(rows, mask) ==
  LET F[k \in 0..Len(rows)] ==
        IF k = 0 THEN <<>>
        ELSE IF k \in mask THEN Append(F[k - 1], rows[k]) ELSE F[k - 1]
  IN F[Len(rows)]

\* frame[name] = values: adds (or overwrites) a column from a Series aligned
\* with the frame's rows.
SetColumn(frame, name, values) ==
  LET cols == IF name \in Range(frame.columns) THEN frame.columns
              ELSE Append(frame.columns, name)
  IN [columns |-> cols,
      rows |-> [k \in 1..Len(frame.rows) |->
                  [idx |-> frame.rows[k].idx,
                   v |-> [c \in Range(cols) |->
                            IF c = name THEN values[k]
                            ELSE frame.rows[k].v[c]]]]]

\* frame[[...]]: the listed columns only.
Project(frame, cols) ==
  [columns |-> cols,
   rows |-> [k \in 1..Len(frame.rows) |->
               [idx |-> frame.rows[k].idx,
                v |-> [c \in Range(cols) |-> frame.rows[k].v[c]]]]]

\* frame[col]: a column as a Series (by position).
Column(frame, col) == [k \in 1..Len(frame.rows) |-> frame.rows[k].v[col]]

\* Series.notna() as the set of positions holding a value.
NotnaMask(series) == {k \in 1..Len(series) : series[k] # NaN}

\* A dropna() that forgets the derived Date column.
DropnaIgnoringDate(frame) ==
  [columns |-> frame.columns,
   rows |-> SelectRows(frame.rows,
              {k \in 1..Len(frame.rows) :
                 \A c \in Range(frame.columns) \ {"Date"} : frame.rows[k].v[c] # NaN})]

\* frame.dropna(): drops every row holding a missing value in any column.
Dropna(frame) ==
  [columns |-> frame.columns,
   rows |-> SelectRows(frame.rows,
              {k \in 1..Len(frame.rows) :
                 \A c \in Range(frame.columns) : frame.rows[k].v[c] # NaN})]

\* --------------------------------------------------------------- load_data

\* st.cache_data's body: the uncached load_data().
load_data(records) ==
  LET f0 == ReadCsv(records)
      f1 == [columns |-> f0.columns,
             rows |-> SelectRows(f0.rows, NotnaMask(Column(f0, "Number of cases")))]
      gov == [k \in 1..Len(f1.rows) |->
                StrReplaceUnderscore(ExtractGovernorate(f1.rows[k].v["refArea"]))]
      f2 == SetColumn(f1, "Governorate", gov)
      yr == [k \in 1..Len(f2.rows) |-> ExtractYear(f2.rows[k].v["refPeriod"])]
      f3 == SetColumn(f2, "Year", yr)
      mo == [k \in 1..Len(f3.rows) |-> ExtractMonth(f3.rows[k].v["refPeriod"])]
      f4 == SetColumn(f3, "Month", mo)
      dt == [k \in 1..Len(f4.rows) |->
               ToDatetime(YearDashMonth(f4.rows[k].v["Year"], f4.rows[k].v["Month"]))]
      f5 == SetColumn(f4, "Date", dt)
  IN Dropna(Project(f5, CleanColumns))

\* ------------------------------------------------------------------- dates

IsLeap(y) == (y % 4 = 0 /\ y % 100 # 0) \/ y % 400 = 0

DaysInMonth(y, m) ==
  IF m = 2 THEN (IF IsLeap(y) THEN 29 ELSE 28)
  ELSE IF m \in {4, 6, 9, 11} THEN 30 ELSE 31

RECURSIVE DaysBeforeMonth(_, _)
DaysBeforeMonth(y, m) ==
  IF m = 1 THEN 0 ELSE DaysBeforeMonth(y, m - 1) + DaysInMonth(y, m - 1)

\* A date coordinate that counts months instead of days.
MonthCountOrdinal(d) == 12 * d[1] + d[2]

\* pd.Timestamp.toordinal: the proleptic Gregorian day number, 0001-01-01 = 1.
ToOrdinal(d) ==
  LET y == d[1] - 1
  IN 365 * y + (y \div 4) - (y \div 100) + (y \div 400)
       + DaysBeforeMonth(d[1], d[2]) + d[3]

\* A month step that wraps the month number without carrying into the year.
AddMonthsNoCarry(d, i) ==
  LET m == (((d[2] - 1) + i) % 12) + 1
      last == DaysInMonth(d[1], m)
  IN <<d[1], m, IF d[3] <= last THEN d[3] ELSE last>>

\* date + pd.DateOffset(months=i): i calendar months later, the day of the
\* month kept and clamped to the length of the target month.
AddMonths(d, i) ==
  LET t == (d[2] - 1) + i
      y == d[1] + (t \div 12)
      m == (t % 12) + 1
      last == DaysInMonth(y, m)
  IN <<y, m, IF d[3] <= last THEN d[3] ELSE last>>

\* Timestamp ordering.
DateLess(a, b) ==
  \/ a[1] < b[1]
  \/ a[1] = b[1] /\ a[2] < b[2]
  \/ a[1] = b[1] /\ a[2] = b[2] /\ a[3] < b[3]

RECURSIVE SortDates(_)
SortDates(S) ==
  IF S = {} THEN <<>>
  ELSE LET m == CHOOSE d \in S : \A e \in S : e = d \/ DateLess(d, e)
       IN <<m>> \o SortDates(S \ {m})

\* ------------------------------------------------------------ aggregations

month_order ==
  <<"January", "February", "March", "April", "May", "June",
    "July", "August", "September", "October", "November", "December">>

\* A reduction in which each row overwrites the ones before it.
LastCases(rows) ==
  IF rows = <<>> THEN 0 ELSE rows[Len(rows)].v["Number of cases"][1]

\* Series.sum() of the case counts of a sequence of rows (0 when empty).
RECURSIVE SumCases(_)
SumCases(rows) ==
  IF rows = <<>> THEN 0
  ELSE Head(rows).v["Number of cases"][1] + SumCases(Tail(rows))

\* A grouping in which a later row of a group overwrites the earlier ones.
GroupLastRow(frame, col, key) ==
  LET g == SelectRows(frame.rows, {k \in 1..Len(frame.rows) : frame.rows[k].v[col] = key})
  IN IF g = <<>> THEN <<>> ELSE <<g[Len(g)]>>

\* The rows of one group of frame.groupby(col).
GroupRows(frame, col, key) ==
  SelectRows(frame.rows, {k \in 1..Len(frame.rows) : frame.rows[k].v[col] = key})

\* Series.unique() / nunique() as a set.
Unique(frame, col) == {frame.rows[k].v[col] : k \in 1..Len(frame.rows)}

\* frame.groupby("Date")["Number of cases"].sum().reset_index(): one entry
\* per distinct Date, ascending by Date.
GroupByDateSum(frame) ==
  LET keys == SortDates(Unique(frame, "Date"))
  IN [k \in 1..Len(keys) |->
        [Date |-> keys[k], cases |-> SumCases(GroupRows(frame, "Date", keys[k]))]]

\* frame.groupby("Governorate")["Number of cases"].sum(): key -> total.
GroupByGovSum(frame) ==
  [g \in Unique(frame, "Governorate") |-> SumCases(GroupRows(frame, "Governorate", g))]

\* .sort_values(ascending=True): every ordering of the groups that is
\* ascending by total (the default sort is not stable, so ties may fall
\* either way).
SortValuesAscending(totals) ==
  LET K == DOMAIN totals
      n == Cardinality(K)
  IN {[k \in 1..n |-> [Governorate |-> f[k], cases |-> totals[f[k]]]] :
        f \in {g \in [1..n -> K] :
                 /\ \A i, j \in 1..n : i # j => g[i] # g[j]
                 /\ \A i, j \in 1..n : i < j => totals[g[i]] <= totals[g[j]]}}

\* pd.to_datetime(Month, format="%m").dt.strftime("%B").
MonthName(m) == month_order[ParseInt(m)]

\* frame.groupby("Month Name")["Number of cases"].mean(): name -> mean, the
\* mean of the group's rows as the rational <<sum, count>>.
GroupByMonthMean(frame) ==
  [name \in Unique(frame, "Month Name") |->
     LET g == GroupRows(frame, "Month Name", name)
     IN <<SumCases(g), Len(g)>>]

\* A reindex that fills the absent months with zero.
ReindexFillZero(means, order) ==
  [k \in 1..Len(order) |->
     [month |-> order[k],
      mean |-> IF order[k] \in DOMAIN means THEN means[order[k]] ELSE <<0, 1>>]]

\* Series.reindex(month_order): the twelve names in order, NaN where the
\* name is not a group.
Reindex(means, order) ==
  [k \in 1..Len(order) |->
     [month |-> order[k],
      mean |-> IF order[k] \in DOMAIN means THEN means[order[k]] ELSE NaN]]

\* ----------------------------------------------------------------- forecast

\* monthly_cases with its Date_Ordinal column.
RegressionSeries(frame) ==
  LET t == GroupByDateSum(frame)
  IN [k \in 1..Len(t) |->
        [Date |-> t[k].Date, cases |-> t[k].cases, Date_Ordinal |-> ToOrdinal(t[k].Date)]]

RECURSIVE SumOver(_)
SumOver(s) == IF s = <<>> THEN 0 ELSE Head(s) + SumOver(Tail(s))

\* A fit that also rejects a single sample.
FitNeedsTwo(series) ==
  LET n == Len(series)
      SX == SumOver([k \in 1..n |-> series[k].Date_Ordinal])
      SY == SumOver([k \in 1..n |-> series[k].cases])
      dx == [k \in 1..n |-> n * series[k].Date_Ordinal - SX]
      dy == [k \in 1..n |-> n * series[k].cases - SY]
  IN [raised |-> n < 2,
      n |-> n, SX |-> SX, SY |-> SY,
      Sdd |-> SumOver([k \in 1..n |-> dx[k] * dx[k]]),
      Sdy |-> SumOver([k \in 1..n |-> dx[k] * dy[k]])]

\* LinearRegression().fit(X, y) with one feature, in exact arithmetic.  The
\* estimator centres X and y on their means and solves least squares on the
\* centred data; with dx = n*x - sum(x) and dy = n*y - sum(y) the slope is
\* Sdy / Sdd, and it is 0 (the minimum-norm solution) when all x coincide.
\* check_array rejects an empty X, so a fit on no sample raises.
Fit(series) ==
  LET n == Len(series)
      SX == SumOver([k \in 1..n |-> series[k].Date_Ordinal])
      SY == SumOver([k \in 1..n |-> series[k].cases])
      dx == [k \in 1..n |-> n * series[k].Date_Ordinal - SX]
      dy == [k \in 1..n |-> n * series[k].cases - SY]
  IN [raised |-> n = 0,
      n |-> n, SX |-> SX, SY |-> SY,
      Sdd |-> SumOver([k \in 1..n |-> dx[k] * dx[k]]),
      Sdy |-> SumOver([k \in 1..n |-> dx[k] * dy[k]])]

\* model.predict at ordinal x: mean(y) + slope * (x - mean(x)), as the
\* rational <<numerator, denominator>>.
Predict(model, x) ==
  IF model.Sdd = 0 THEN <<model.SY, model.n>>
  ELSE <<model.SY * model.Sdd + model.Sdy * (model.n * x - model.SX),
         model.n * model.Sdd>>

\* monthly_cases["Date"].max().
MaxDate(series) ==
  LET D == {series[k].Date : k \in 1..Len(series)}
  IN CHOOSE d \in D : \A e \in D : e = d \/ DateLess(e, d)

\* Number of forecast points: range(1, 7).
Horizon == 6

\* future_dates.
FutureDates(last_date) == [i \in 1..Horizon |-> AddMonths(last_date, i)]

\* forecast_df: the six (Date, Predicted Cases) pairs.
ForecastFrame(series) ==
  LET model == Fit(series)
      last_date == MaxDate(series)
      future_dates == FutureDates(last_date)
  IN [i \in 1..Horizon |->
        [Date |-> future_dates[i],
         Predicted |-> Predict(model, ToOrdinal(future_dates[i]))]]

\* ------------------------------------------------------------------ inputs

\* refArea values of the dashboard specification.
DashAreas ==
  {<<"x", "/", "r", "e", "s", "o", "u", "r", "c", "e", "/", "B", "e", "i", "r", "u", "t">>,
   <<"x", "/", "r", "e", "s", "o", "u", "r", "c", "e", "/", "M", "o", "u", "n", "t", "_", "L", "e", "b", "a", "n", "o", "n">>}

\* refPeriod values of the dashboard specification.
DashPeriods ==
  {<<"0", "1", "-", "2", "0", "2", "0">>,
   <<"0", "2", "-", "2", "0", "2", "0">>}

DashCases == {<<10>>, <<20>>}

\* A record of the year before, so that the Year filter has two options.
EarlierRecord ==
  [refArea |-> <<"x", "/", "r", "e", "s", "o", "u", "r", "c", "e", "/", "M", "o", "u", "n", "t", "_", "L", "e", "b", "a", "n", "o", "n">>,
   refPeriod |-> <<"1", "2", "-", "2", "0", "1", "9">>,
   cases |-> <<20>>]

DashRecords ==
  {[refArea |-> a, refPeriod |-> p, cases |-> c] :
     a \in DashAreas, p \in DashPeriods, c \in DashCases} \cup {EarlierRecord}

\* refArea values of the loader specification: a matching resource URL with
\* an underscore, a string with no "/resource/", a "/resource/" followed by
\* two path segments, and a "/resource/" path nested under another.
LoadAreas ==
  {<<"x", "/", "r", "e", "s", "o", "u", "r", "c", "e", "/", "M", "o", "u", "n", "t", "_", "L", "e", "b", "a", "n", "o", "n">>,
   <<"b", "a", "d", "f", "o", "r", "m", "a", "t">>,
   <<"x", "/", "r", "e", "s", "o", "u", "r", "c", "e", "/", "a", "/", "b">>,
   <<"/", "r", "e", "s", "o", "u", "r", "c", "e", "/", "a", "/", "r", "e", "s", "o", "u", "r", "c", "e", "/", "B", "_", "b">>}

\* refPeriod values of the loader specification: MM-YYYY, a month 13, a
\* four-digit run ahead of the MM-YYYY, YYYY-MM, two MM-YYYY in one string,
\* and a year 0000.
LoadPeriods ==
  {<<"0", "1", "-", "2", "0", "2", "0">>,
   <<"1", "3", "-", "2", "0", "2", "0">>,
   <<"2", "0", "1", "9", "/", "0", "3", "-", "2", "0", "2", "0">>,
   <<"2", "0", "2", "0", "-", "0", "1">>,
   <<"0", "3", "-", "2", "0", "2", "0", "/", "0", "4", "-", "2", "0", "2", "1">>,
   <<"0", "1", "-", "0", "0", "0", "0">>}

\* Further loader records: a missing refArea, a missing refPeriod, an empty
\* trailing segment, and a month preceded by a third digit.
LoadExtraRecords ==
  {[refArea |-> NaN, refPeriod |-> <<"0", "1", "-", "2", "0", "2", "0">>, cases |-> <<10>>],
   [refArea |-> <<"x", "/", "r", "e", "s", "o", "u", "r", "c", "e", "/", "M", "o", "u", "n", "t", "_", "L", "e", "b", "a", "n", "o", "n">>, refPeriod |-> NaN, cases |-> <<10>>],
   [refArea |-> <<"x", "/", "r", "e", "s", "o", "u", "r", "c", "e", "/">>, refPeriod |-> <<"0", "1", "-", "2", "0", "2", "0">>, cases |-> <<10>>],
   [refArea |-> <<"x", "/", "r", "e", "s", "o", "u", "r", "c", "e", "/", "M", "o", "u", "n", "t", "_", "L", "e", "b", "a", "n", "o", "n">>, refPeriod |-> <<"1", "1", "2", "-", "2", "0", "2", "0">>, cases |-> <<20>>]}

LoadRecords ==
  {[refArea |-> a, refPeriod |-> p, cases |-> c] :
     a \in LoadAreas, p \in LoadPeriods, c \in {NaN, <<10>>}} \cup LoadExtraRecords

\* Every CSV of at most n records over R.
Tables(R, n) == UNION {[1..k -> R] : k \in 0..n}

\* ------------------------------------------------------------------- state

VARIABLES
  raw,             \* the records of Dysentery_data.csv
  cache,           \* st.cache_data's memo of load_data(): <<>> or <<frame>>
  heap,            \* the DataFrame objects of the current script run
  df,              \* the object the name df is bound to
  df_filtered,     \* the object the name df_filtered is bound to
  selected_years,  \* value of the Year multiselect
  selected_govs,   \* value of the Governorate multiselect
  kpi,             \* the three st.metric values
  trend,           \* by-date totals
  gov_data,        \* by-region totals, ascending
  monthly_avg,     \* by-calendar-month means, reindexed
  monthly_cases,   \* regression series
  forecast_df,     \* the six forecast points, <<>> when none was produced
  status           \* "init", "loaded", "done", or "error" (the run raised)

vars ==
  <<raw, cache, heap, df, df_filtered, selected_years, selected_govs, kpi,
    trend, gov_data, monthly_avg, monthly_cases, forecast_df, status>>

Objects == {"df_obj", "filtered_obj"}

InitWith(tables) ==
  /\ raw \in tables
  /\ cache = <<>>
  /\ heap = [o \in Objects |-> NoFrame]
  /\ df = "df_obj"
  /\ df_filtered = "filtered_obj"
  /\ selected_years = {}
  /\ selected_govs = {}
  /\ kpi = [total |-> 0, months |-> 0, govs |-> 0]
  /\ trend = <<>>
  /\ gov_data = <<>>
  /\ monthly_avg = <<>>
  /\ monthly_cases = <<>>
  /\ forecast_df = <<>>
  /\ status = "init"

Init == InitWith(Tables(DashRecords, MaxRows))

InitLoad == InitWith(Tables(LoadRecords, MaxLoadRows))

\* load_data() under @st.cache_data: the body runs on a miss; every call
\* returns its own copy of the memoised frame.
CachedLoad == IF cache = <<>> THEN load_data(raw) ELSE cache[1]

\* sorted(df["Year"].unique()) and sorted(df["Governorate"].unique()): the
\* options of the two multiselects (as sets).
years(frame) == Unique(frame, "Year")

governorates(frame) == Unique(frame, "Governorate")

\* A filter mask that joins the two tests with "or".
FilterMaskEither(frame, ys, gs) ==
  {k \in 1..Len(frame.rows) :
     frame.rows[k].v["Year"] \in ys \/ frame.rows[k].v["Governorate"] \in gs}

\* df["Year"].isin(selected_years) & df["Governorate"].isin(selected_govs).
FilterMask(frame, ys, gs) ==
  {k \in 1..Len(frame.rows) :
     frame.rows[k].v["Year"] \in ys /\ frame.rows[k].v["Governorate"] \in gs}

\* Boolean indexing that hands back the indexed object itself.
MaskIndexInPlace(src) == src

\* df[mask] builds a new DataFrame object; it never aliases df.
MaskIndexObject(src) == "filtered_obj"

\* df_filtered["Month Name"]: the month names of the rows' Month strings.
MonthNames(frame) ==
  [k \in 1..Len(frame.rows) |-> MonthName(frame.rows[k].v["Month"])]

\* One execution of the script, top to bottom, with the given widget values.
\* loaded is the frame load_data() returns, filt the frame df[mask] builds,
\* named the same object after the "Month Name" assignment.
Script(ys, gs) ==
  \E loaded \in {CachedLoad} :
  \E filt \in {[columns |-> loaded.columns,
               rows |-> SelectRows(loaded.rows, FilterMask(loaded, ys, gs))]} :
  \E named \in {SetColumn(filt, "Month Name", MonthNames(filt))} :
  \E series \in {RegressionSeries(named)} :
    LET target == MaskIndexObject("df_obj")
        h1 == [heap EXCEPT !["df_obj"] = loaded]
        h2 == [h1 EXCEPT ![target] = filt]
        h3 == [h2 EXCEPT ![target] = named]
    IN /\ cache' = <<loaded>>
       /\ heap' = h3
       /\ df' = "df_obj"
       /\ df_filtered' = target
       /\ selected_years' = ys
       /\ selected_govs' = gs
       /\ kpi' = [total |-> SumCases(filt.rows),
                  months |-> Cardinality(Unique(filt, "Date")),
                  govs |-> Cardinality(Unique(filt, "Governorate"))]
       /\ trend' = GroupByDateSum(filt)
       /\ gov_data' \in SortValuesAscending(GroupByGovSum(filt))
       /\ monthly_avg' = Reindex(GroupByMonthMean(named), month_order)
       /\ monthly_cases' = series
       /\ IF Fit(series).raised
          THEN forecast_df' = <<>> /\ status' = "error"
          ELSE forecast_df' = ForecastFrame(series) /\ status' = "done"
       /\ UNCHANGED raw

\* The first run of the script: both multiselects at their default, every
\* option selected.
FirstRun ==
  /\ status = "init"
  /\ Script(years(CachedLoad), governorates(CachedLoad))

\* The user adds or removes one option of the Year multiselect; the widget
\* change makes the script run again.
ToggleYear(y) ==
  /\ status \in {"done", "error"}
  /\ Script((selected_years \ {y}) \cup ({y} \ selected_years), selected_govs)

\* The user adds or removes one option of the Governorate multiselect.
ToggleGov(g) ==
  /\ status \in {"done", "error"}
  /\ Script(selected_years, (selected_govs \ {g}) \cup ({g} \ selected_govs))

\* The statement df = load_data() on its own.
Load ==
  /\ status = "init"
  /\ cache' = <<load_data(raw)>>
  /\ heap' = [heap EXCEPT !["df_obj"] = load_data(raw)]
  /\ status' = "loaded"
  /\ UNCHANGED <<raw, df, df_filtered, selected_years, selected_govs, kpi, trend,
                 gov_data, monthly_avg, monthly_cases, forecast_df>>

Next ==
  \/ FirstRun
  \/ \E y \in years(CachedLoad) : ToggleYear(y)
  \/ \E g \in governorates(CachedLoad) : ToggleGov(g)

Spec == Init /\ [][Next]_vars

NextLoad == Load

SpecLoad == InitLoad /\ [][NextLoad]_vars

\* ------------------------------------------------------ vocabulary of claims

\* The cleaned table and the filtered table of the current run.
Clean == heap[df]

Filtered == heap[df_filtered]

\* The script has run at least once (to its end, or to the statement that raised).
Ran == status \in {"done", "error"}

Positions(frame) == 1..Len(frame.rows)

\* The greatest element of a non-empty set of integers.
MaxOf(S) == CHOOSE x \in S : \A y \in S : y <= x

CasesAt(frame, k) == frame.rows[k].v["Number of cases"][1]

\* The sum of the case counts of the rows at the positions S.
RECURSIVE SumAt(_, _)
SumAt(frame, S) ==
  IF S = {} THEN 0
  ELSE LET k == CHOOSE x \in S : TRUE
       IN CasesAt(frame, k) + SumAt(frame, S \ {k})

\* The sum of the `cases` field over a view (a sequence of records).
RECURSIVE TotalOf(_)
TotalOf(view) == IF view = <<>> THEN 0 ELSE Head(view).cases + TotalOf(Tail(view))

\* The rows of the table that carry index label i.
RowsLabelled(frame, i) == {k \in Positions(frame) : frame.rows[k].idx = i}

\* refArea ends in "/resource/<segment>": its last "/" closes a "/resource/"
\* and is followed by at least one character.
AreaMatches(s) ==
  LET slashes == {q \in 1..Len(s) : s[q] = "/"}
  IN /\ slashes # {}
     /\ MaxOf(slashes) >= 10
     /\ MaxOf(slashes) < Len(s)
     /\ SubSeq(s, MaxOf(slashes) - 9, MaxOf(slashes)) =
          <<"/", "r", "e", "s", "o", "u", "r", "c", "e", "/">>

\* The trailing segment, underscores shown as spaces.
ExpectedGovernorate(s) ==
  LET q == MaxOf({q \in 1..Len(s) : s[q] = "/"})
  IN [k \in 1..(Len(s) - q) |-> IF s[q + k] = "_" THEN " " ELSE s[q + k]]

\* "MM-YYYY" stands at position p of s.
MonthYearAt(s, p) ==
  /\ p + 6 <= Len(s)
  /\ \A k \in {0, 1, 3, 4, 5, 6} : s[p + k] \in Digits
  /\ s[p + 2] = "-"

\* refPeriod contains MM-YYYY.
PeriodMatches(s) == \E p \in 1..Len(s) : MonthYearAt(s, p)

\* The MM of the first MM-YYYY.
ExpectedMonth(s) ==
  LET p == CHOOSE p \in 1..Len(s) :
             MonthYearAt(s, p) /\ \A q \in 1..(p - 1) : ~MonthYearAt(s, q)
  IN <<s[p], s[p + 1]>>

\* The first run of four digits.
ExpectedYear(s) ==
  LET Four(p) == p + 3 <= Len(s) /\ \A k \in 0..3 : s[p + k] \in Digits
      p == CHOOSE p \in 1..Len(s) : Four(p) /\ \A q \in 1..(p - 1) : ~Four(q)
  IN <<s[p], s[p + 1], s[p + 2], s[p + 3]>>

\* Year and Month name a calendar month that a Timestamp can hold.
IsCalendarMonth(y, m) ==
  LET yy == ParseInt(y)
      mm == ParseInt(m)
  IN /\ mm \in 1..12
     /\ 12 * yy + mm >= 12 * 1677 + 10
     /\ 12 * yy + mm <= 12 * 2262 + 4

\* The raw record matches the patterns of the claim.
MatchesPatterns(r) ==
  /\ r.cases # NaN
  /\ AreaMatches(r.refArea)
  /\ PeriodMatches(r.refPeriod)

\* The raw record at position i has exactly one row in the cleaned table,
\* and that row carries the values decoded from the record.
HasItsRow(i) ==
  LET r == raw[i]
      hits == RowsLabelled(Clean, i - 1)
  IN /\ Cardinality(hits) = 1
     /\ \A k \in hits :
          /\ Clean.rows[k].v["Year"] = ExpectedYear(r.refPeriod)
          /\ Clean.rows[k].v["Month"] = ExpectedMonth(r.refPeriod)
          /\ Clean.rows[k].v["Governorate"] = ExpectedGovernorate(r.refArea)
          /\ Clean.rows[k].v["Date"] =
               <<ParseInt(ExpectedYear(r.refPeriod)),
                 ParseInt(ExpectedMonth(r.refPeriod)), 1>>
          /\ Clean.rows[k].v["Number of cases"] = r.cases

HasNoRow(i) == RowsLabelled(Clean, i - 1) = {}

AllFieldsPresent ==
  /\ Clean.columns = <<"Date", "Year", "Month", "Governorate", "Number of cases">>
  /\ \A k \in Positions(Clean) : \A c \in Range(Clean.columns) : Clean.rows[k].v[c] # NaN

\* ------------------------------------------------------------------ claims

\* C1 as stated: after load_data, every raw record with a non-null case
\* count whose refArea and refPeriod match the patterns has exactly one row
\* with its decoded Year, Month, Governorate and Date; every other record has
\* no row; every row has all five fields non-null.
C1_Original ==
  status = "loaded" =>
    /\ \A i \in 1..Len(raw) :
         IF MatchesPatterns(raw[i]) THEN HasItsRow(i) ELSE HasNoRow(i)
    /\ AllFieldsPresent

\* C1 as amended: the record has its row exactly when, besides matching the
\* patterns, its decoded Year and Month name a calendar month (month 01..12,
\* inside the Timestamp range); a record whose Date does not derive has no
\* row; every row has all five fields non-null.
C1_LoaderContract ==
  status = "loaded" =>
    /\ \A i \in 1..Len(raw) :
         IF /\ MatchesPatterns(raw[i])
            /\ IsCalendarMonth(ExpectedYear(raw[i].refPeriod),
                               ExpectedMonth(raw[i].refPeriod))
         THEN HasItsRow(i)
         ELSE HasNoRow(i)
    /\ AllFieldsPresent

\* C1 witness: a loaded CSV of two records, the first kept with the
\* governorate "Mount Lebanon", the second matching the patterns with month 13.
C1_Witness ==
  /\ status = "loaded"
  /\ Len(raw) = 2
  /\ MatchesPatterns(raw[1])
  /\ MatchesPatterns(raw[2])
  /\ ExpectedMonth(raw[2].refPeriod) = <<"1", "3">>
  /\ Len(Clean.rows) = 1
  /\ Clean.rows[1].v["Governorate"] =
       <<"M", "o", "u", "n", "t", " ", "L", "e", "b", "a", "n", "o", "n">>

\* C2: after a run, the filtered table is exactly the rows of the cleaned
\* table whose Year is selected and whose Governorate is selected: none
\* added, dropped, altered or reordered; an empty selection gives no row.
C2_FilterExact ==
  Ran =>
    /\ \A k \in Positions(Clean) :
         (/\ Clean.rows[k].v["Year"] \in selected_years
          /\ Clean.rows[k].v["Governorate"] \in selected_govs)
         <=> \E j \in Positions(Filtered) :
               /\ Filtered.rows[j].idx = Clean.rows[k].idx
               /\ \A c \in Range(Clean.columns) :
                    Filtered.rows[j].v[c] = Clean.rows[k].v[c]
    /\ \A j \in Positions(Filtered) :
         \E k \in Positions(Clean) : Clean.rows[k].idx = Filtered.rows[j].idx
    /\ \A i, j \in Positions(Filtered) :
         i < j => Filtered.rows[i].idx < Filtered.rows[j].idx
    /\ (selected_years = {} \/ selected_govs = {}) => Filtered.rows = <<>>

\* C2 witness: a run whose selection keeps some rows and drops others.
C2_Witness ==
  /\ Ran
  /\ Len(Filtered.rows) > 0
  /\ Len(Filtered.rows) < Len(Clean.rows)
  /\ selected_years # {}
  /\ selected_govs # {}

\* C3: when the selection leaves zero rows of a non-empty cleaned table, the
\* run completes without raising, Total Cases is 0 and the chart series are
\* empty.
C3_EmptyFilterCompletes ==
  (Ran /\ Clean.rows # <<>> /\ Filtered.rows = <<>>) =>
    /\ status = "done"
    /\ kpi.total = 0
    /\ trend = <<>>
    /\ gov_data = <<>>

\* The month number of a date, counted from year 0.
MonthNumber(d) == 12 * d[1] + d[2]

\* The latest date of the by-date series.
LastHistorical ==
  CHOOSE d \in {trend[k].Date : k \in 1..Len(trend)} :
    \A k \in 1..Len(trend) : MonthNumber(trend[k].Date) <= MonthNumber(d)

\* C4: a forecast that is produced has exactly 6 points, strictly increasing
\* in date, each one calendar month after the one before (same day of the
\* month, next month number), the first one month after the latest date of
\* the by-date series.
C4_ForecastDates ==
  status = "done" =>
    /\ Len(forecast_df) = 6
    /\ \A i \in 1..6 :
         /\ MonthNumber(forecast_df[i].Date) = MonthNumber(LastHistorical) + i
         /\ forecast_df[i].Date[2] \in 1..12
         /\ forecast_df[i].Date[3] = LastHistorical[3]
    /\ \A i \in 1..5 : DateLess(forecast_df[i].Date, forecast_df[i + 1].Date)

\* C4 witness: a forecast that starts in January of the year after the last
\* historical date.
C4_Witness ==
  /\ status = "done"
  /\ LastHistorical = <<2019, 12, 1>>
  /\ forecast_df[1].Date = <<2020, 1, 1>>
  /\ forecast_df[6].Date = <<2020, 6, 1>>

\* The by-date series of the scenario: 2020-01 -> 10, 2020-02 -> 20.
TwoPointScenario ==
  /\ status = "done"
  /\ trend = <<[Date |-> <<2020, 1, 1>>, cases |-> 10],
               [Date |-> <<2020, 2, 1>>, cases |-> 20]>>

\* C5 as stated: in the two-point scenario the first forecast point, 2020-03,
\* is predicted 30.
C5_Original ==
  TwoPointScenario =>
    /\ forecast_df[1].Date = <<2020, 3, 1>>
    /\ forecast_df[1].Predicted[1] = 30 * forecast_df[1].Predicted[2]

\* C5 as amended: in the two-point scenario the first forecast point,
\* 2020-03, is predicted 910/31 (about 29.35): the line rises 10 over the 31
\* days of January and is read 29 days after 2020-02-01.
C5_TwoPointPrediction ==
  TwoPointScenario =>
    /\ forecast_df[1].Date = <<2020, 3, 1>>
    /\ forecast_df[1].Predicted[2] > 0
    /\ 31 * forecast_df[1].Predicted[1] = 910 * forecast_df[1].Predicted[2]

\* C5 witness: the scenario itself, with its forecast.
C5_Witness ==
  /\ TwoPointScenario
  /\ Len(forecast_df) = 6

\* C6: the by-date totals and the by-region totals each add up to the sum of
\* the case counts of the filtered rows, which is the Total Cases KPI.
C6_Conservation ==
  Ran =>
    /\ kpi.total = SumAt(Filtered, Positions(Filtered))
    /\ TotalOf(trend) = kpi.total
    /\ TotalOf(gov_data) = kpi.total

\* C6 witness: three filtered rows over two dates and two governorates.
C6_Witness ==
  /\ Ran
  /\ Len(Filtered.rows) = 3
  /\ Len(trend) = 2
  /\ Len(gov_data) = 2
  /\ kpi.total = 50

CalendarMonths ==
  <<"January", "February", "March", "April", "May", "June",
    "July", "August", "September", "October", "November", "December">>

\* The positions of the filtered rows of calendar month k.
RowsOfMonth(k) == {j \in Positions(Filtered) : ParseInt(Filtered.rows[j].v["Month"]) = k}

\* C7: the by-calendar-month view has exactly 12 entries, January to
\* December in order; a month with rows carries the mean of its rows' case
\* counts, a month without rows carries a missing value.
C7_MonthlyView ==
  Ran =>
    /\ Len(monthly_avg) = 12
    /\ \A k \in 1..12 :
         /\ monthly_avg[k].month = CalendarMonths[k]
         /\ IF RowsOfMonth(k) = {}
            THEN monthly_avg[k].mean = NaN
            ELSE /\ monthly_avg[k].mean # NaN
                 /\ monthly_avg[k].mean[2] > 0
                 /\ monthly_avg[k].mean[1] * Cardinality(RowsOfMonth(k)) =
                      SumAt(Filtered, RowsOfMonth(k)) * monthly_avg[k].mean[2]

\* C7 witness: January holds two rows of 10 and 20 (mean 15), February has
\* rows too, and March has none.
C7_Witness ==
  /\ Ran
  /\ Cardinality(RowsOfMonth(1)) = 2
  /\ SumAt(Filtered, RowsOfMonth(1)) = 30
  /\ RowsOfMonth(2) # {}
  /\ monthly_avg[3].mean = NaN

\* The number of distinct dates of the filtered table.
DistinctDates == Cardinality({Filtered.rows[j].v["Date"] : j \in Positions(Filtered)})

\* C8 as stated: with fewer than 2 distinct dates the forecast stage raises.
C8_Original == (Ran /\ DistinctDates < 2) => status = "error"

\* C8 as amended: the forecast stage raises exactly when the filtered table
\* has no date at all, and then no forecast is produced; with exactly one
\* distinct date the fit is accepted and the forecast is six points, each
\* predicting that date's total.
C8_InsufficientHistory ==
  Ran =>
    /\ (DistinctDates = 0) <=> (status = "error")
    /\ status = "error" => forecast_df = <<>>
    /\ DistinctDates = 1 =>
         /\ Len(forecast_df) = 6
         /\ \A i \in 1..6 :
              /\ forecast_df[i].Predicted[2] > 0
              /\ forecast_df[i].Predicted[1] = kpi.total * forecast_df[i].Predicted[2]

\* C8 witness: a run over a single date with a non-zero total.
C8_Witness ==
  /\ status = "done"
  /\ DistinctDates = 1
  /\ kpi.total > 0
  /\ Len(Filtered.rows) = 2

\* Rows j and k of the filtered table share Date and Governorate.
SameKey(j, k) ==
  /\ Filtered.rows[j].v["Date"] = Filtered.rows[k].v["Date"]
  /\ Filtered.rows[j].v["Governorate"] = Filtered.rows[k].v["Governorate"]

\* The merged table: one row per (Date, Governorate), standing at the first
\* row of that key and carrying the sum of the rows that share it.
MergedRows == {k \in Positions(Filtered) : \A j \in 1..(k - 1) : ~SameKey(j, k)}

MergedCases(k) == SumAt(Filtered, {j \in Positions(Filtered) : SameKey(j, k)})

RECURSIVE MergedSum(_)
MergedSum(S) ==
  IF S = {} THEN 0
  ELSE LET k == CHOOSE x \in S : TRUE
       IN MergedCases(k) + MergedSum(S \ {k})

MergedOfDate(d) == {k \in MergedRows : Filtered.rows[k].v["Date"] = d}

MergedOfGov(g) == {k \in MergedRows : Filtered.rows[k].v["Governorate"] = g}

MergedOfMonth(m) == MergedRows \cap RowsOfMonth(m)

\* The three sum views agree with the views of the merged table.
SumViewsAsMerged ==
  /\ {trend[k].Date : k \in 1..Len(trend)} =
       {Filtered.rows[k].v["Date"] : k \in MergedRows}
  /\ \A k \in 1..Len(trend) : trend[k].cases = MergedSum(MergedOfDate(trend[k].Date))
  /\ {gov_data[k].Governorate : k \in 1..Len(gov_data)} =
       {Filtered.rows[k].v["Governorate"] : k \in MergedRows}
  /\ \A k \in 1..Len(gov_data) :
       gov_data[k].cases = MergedSum(MergedOfGov(gov_data[k].Governorate))
  /\ Len(monthly_cases) = Len(trend)
  /\ \A k \in 1..Len(monthly_cases) :
       /\ monthly_cases[k].Date = trend[k].Date
       /\ monthly_cases[k].cases = MergedSum(MergedOfDate(monthly_cases[k].Date))

\* The by-month mean agrees with the mean over the merged table.
MonthMeanAsMerged ==
  \A m \in 1..12 :
    RowsOfMonth(m) # {} =>
      monthly_avg[m].mean[1] * Cardinality(MergedOfMonth(m)) =
        MergedSum(MergedOfMonth(m)) * monthly_avg[m].mean[2]

\* The by-month mean counts every row, duplicates included, once.
MonthMeanOverRows ==
  \A m \in 1..12 :
    RowsOfMonth(m) # {} =>
      monthly_avg[m].mean[1] * Cardinality(RowsOfMonth(m)) =
        MergedSum(MergedOfMonth(m)) * monthly_avg[m].mean[2]

\* C9 as stated: each of the four views equals the view of the table in
\* which rows sharing Date and Governorate are first merged into their sum.
C9_Original == Ran => (SumViewsAsMerged /\ MonthMeanAsMerged)

\* C9 as amended: the by-date total, the by-region total and the regression
\* series equal those of the merged table; the by-calendar-month mean divides
\* the month's summed cases by its number of rows, each duplicate counted as
\* a row of its own.
C9_DuplicatesSummed == Ran => (SumViewsAsMerged /\ MonthMeanOverRows)

\* C9 witness: two filtered rows share Date and Governorate and a third row
\* does not.
C9_Witness ==
  /\ Ran
  /\ Len(Filtered.rows) = 3
  /\ SameKey(1, 3)
  /\ ~SameKey(1, 2)
  /\ CasesAt(Filtered, 1) # CasesAt(Filtered, 3)

\* C10: whatever the sequence of selection changes, the cleaned table and
\* the memoised table are the table load_data makes of the file, with its
\* five columns; the "Month Name" column exists on the filtered table only.
C10_CleanReadOnly ==
  Ran =>
    /\ Clean.columns = <<"Date", "Year", "Month", "Governorate", "Number of cases">>
    /\ Clean = load_data(raw)
    /\ cache = <<Clean>>
    /\ "Month Name" \in Range(Filtered.columns)

\* C10 witness: after a selection change, the filtered table holds fewer
\* rows than the cleaned table and carries the "Month Name" column.
C10_Witness ==
  /\ Ran
  /\ selected_years # years(Clean)
  /\ Len(Filtered.rows) > 0
  /\ Len(Filtered.rows) < Len(Clean.rows)
  /\ Filtered.columns =
       <<"Date", "Year", "Month", "Governorate", "Number of cases", "Month Name">>

====
